---- MODULE Spec2Model ----
(***************************************************************************)
(* Model of homework.py: a bot that polls the homework-review API and      *)
(* relays status changes to one Telegram chat.                             *)
(*                                                                         *)
(* Python values are tagged records ([type |-> ...]) so that None, str,    *)
(* list and dict values can be told apart the way isinstance() and the     *)
(* in operator tell them apart.  The Russian message literals of the     *)
(* source are written transliterated (ASCII); each definition quotes the   *)
(* original text in its comment.                                           *)
(***************************************************************************)
EXTENDS Integers, Sequences, FiniteSets, TLC

\* ------------------------------------------------------------ bounds

\* Number of iterations of the while True loop that are explored.
MaxCycles == 3

\* ------------------------------------------------------ Python values

None == [type |-> "NoneType"]
PyStr(s) == [type |-> "str", s |-> s]
PyInt(n) == [type |-> "int", n |-> n]
PyList(items) == [type |-> "list", items |-> items]
PyDict(d) == [type |-> "dict", d |-> d]
\* Function merge (r @@ [f |-> x] adds field f) comes from TLC.
\* A local name that has not been assigned (reading it raises
\* UnboundLocalError).
Unbound == [type |-> "unbound"]

\* isinstance(v, dict) / isinstance(v, list)
IsDict(v) == v.type = "dict"
IsList(v) == v.type = "list"

\* str(v) as used by f-strings: a str is itself, other values their repr.
Str(v) == IF v.type = "str" THEN v.s ELSE ToString(v)

\* f'{type(v)}'
TypeName(v) == "<class '" \o v.type \o "'>"

\* Python truthiness of the values used here.
Truthy(v) ==
    CASE v.type = "NoneType" -> FALSE
      [] v.type = "str" -> v.s # ""
      [] v.type = "list" -> Len(v.items) > 0
      [] v.type = "dict" -> DOMAIN v.d # {}
      [] OTHER -> TRUE

\* Outcome of a call: a returned value or a raised exception.
Return(v) == [ok |-> TRUE, value |-> v]
Raise(kind, msg) == [ok |-> FALSE, kind |-> kind, msg |-> msg]

\* str(exc) of a caught exception: KeyError shows the repr of its
\* argument (the text in quotes), the other kinds show the text itself.
ErrStr(exc) ==
    IF exc.kind = "KeyError" THEN "'" \o exc.msg \o "'" ELSE exc.msg

\* key in v / key not in v for a str key: key lookup on a dict,
\* element membership on a list; None is not iterable (TypeError).
Contains(v, key) ==
    CASE v.type = "dict" -> Return(key \in DOMAIN v.d)
      [] v.type = "list" ->
            Return(\E i \in 1..Len(v.items) : v.items[i] = PyStr(key))
      [] v.type = "NoneType" ->
            Raise("TypeError",
                  "argument of type '" \o v.type \o "' is not iterable")

\* v[key] on a dict: the value, or KeyError(key).
Subscript(v, key) ==
    IF key \in DOMAIN v.d THEN Return(v.d[key]) ELSE Raise("KeyError", key)

\* ----------------------------------------------------- module constants

RETRY_PERIOD == 600

\* 'approved': 'Работа проверена: ревьюеру всё понравилось. Ура!'
\* 'reviewing': 'Работа взята на проверку ревьюером.'
\* 'rejected': 'Работа проверена: у ревьюера есть замечания.'
HOMEWORK_VERDICTS ==
    [s \in {"approved", "reviewing", "rejected"} |->
        CASE s = "approved" ->
                "Rabota proverena: revyueru vsyo ponravilos. Ura!"
          [] s = "reviewing" -> "Rabota vzyata na proverku revyuerom."
          [] s = "rejected" ->
                "Rabota proverena: u revyuera est zamechaniya."]

\* HOMEWORK_VERDICTS.get(key): the key is hashed first, and a list or a
\* dict is unhashable.
VerdictsGet(key) ==
    CASE key.type \in {"list", "dict"} ->
            Raise("TypeError", "unhashable type: '" \o key.type \o "'")
      [] key.type = "str" /\ key.s \in DOMAIN HOMEWORK_VERDICTS ->
            Return(PyStr(HOMEWORK_VERDICTS[key.s]))
      [] OTHER -> Return(None)

\* A logging call: logging.LEVEL(msg).
Log(level, msg) == [level |-> level, msg |-> msg]

\* ---------------------------------------------------------- functions

LST_NOT_NULL_STRING == <<"PRACTICUM_TOKEN", "TELEGRAM_TOKEN", "TELEGRAM_CHAT_ID">>

\* check_tokens without the exit(): the critical lines are logged and the
\* function returns.
check_tokens_NoExit(environ) ==
    LET missing == SelectSeq(LST_NOT_NULL_STRING,
                             LAMBDA n : ~Truthy(environ[n]))
    IN  [exited |-> FALSE, value |-> None,
         log |-> [i \in 1..Len(missing) |->
                    Log("CRITICAL",
                        "Otsutstvuet obyazatelnaya peremennaya "
                            \o missing[i])]]

\* check_tokens(): with a falsy value among the three, one critical line
\* per falsy value ('Отсутствует обязательная переменная {NAME}') and
\* exit(); otherwise a debug line and an implicit return None.
check_tokens(environ) ==
    LET missing == SelectSeq(LST_NOT_NULL_STRING,
                             LAMBDA n : ~Truthy(environ[n]))
    IN  IF missing # <<>>
        THEN [exited |-> TRUE,
              log |-> [i \in 1..Len(missing) |->
                        Log("CRITICAL",
                            "Otsutstvuet obyazatelnaya peremennaya "
                                \o missing[i])]]
        ELSE [exited |-> FALSE, value |-> None,
              log |-> <<Log("DEBUG",
                            "Proverka klyuchey zakonchilas uspeshno")>>]

\* send_message that logs the failed send and raises it again.
send_message_Reraise(sendOk) ==
    IF sendOk
    THEN Return(None) @@ [log |-> <<Log("DEBUG", "Soobshchenie otpravleno")>>]
    ELSE Raise("TelegramError", "send failed")
            @@ [log |-> <<Log("ERROR", "Sboy pri otpravke soobshcheniya")>>]

\* send_message(bot, message): bot.send_message either returns or raises
\* (sendOk); every Exception is caught and logged, so the call returns None.
\* 'Сбой при отправке сообщения' / 'Сообщение отправлено'
send_message(sendOk) ==
    IF sendOk
    THEN Return(None) @@ [log |-> <<Log("DEBUG", "Soobshchenie otpravleno")>>]
    ELSE Return(None)
            @@ [log |-> <<Log("ERROR", "Sboy pri otpravke soobshcheniya")>>]

\* get_api_answer with response_data = {} assigned before the try.
get_api_answer_DefaultBody(timestamp, http) ==
    LET empty == PyDict([k \in {} |-> None])
    IN  IF http.raised
        THEN Return(empty)
                @@ [log |-> <<Log("ERROR", "Oshibka otpravki zaprosa. "
                                             \o http.msg)>>]
        ELSE IF http.status_code # 200
        THEN Return(empty)
                @@ [log |-> <<Log("ERROR", "Proizoshla oshibka: "
                                    \o "Sboy pri obrashchenii k URL")>>]
        ELSE IF ~http.json.ok
        THEN Return(empty)
                @@ [log |-> <<Log("ERROR", "Oshibka otpravki zaprosa. "
                                             \o http.json.msg)>>]
        ELSE Return(http.json.value)
                @@ [log |-> <<Log("DEBUG", "Otvet ot servera poluchen")>>]

\* get_api_answer whose except clause raises the missing 'form_date' again.
get_api_answer_RaiseOnMissing(timestamp, http) ==
    LET unbound == Raise("UnboundLocalError",
            "local variable 'response_data' referenced before assignment")
    IN  IF http.raised \/ http.status_code # 200 \/ ~http.json.ok
        THEN unbound @@ [log |-> <<Log("ERROR", "Oshibka otpravki zaprosa. ")>>]
        ELSE LET has == Contains(http.json.value, "form_date")
             IN  IF has.ok /\ has.value
                 THEN Return(http.json.value)
                        @@ [log |-> <<Log("DEBUG",
                                          "Otvet ot servera poluchen")>>]
                 ELSE Raise("Exception", "Otsutstvuet parametr form_date")
                        @@ [log |-> <<Log("ERROR", "Proizoshla oshibka: "
                                        \o "Otsutstvuet parametr form_date")>>]

\* get_api_answer(timestamp).  http is what the HTTP client does with the
\* request: requests.get raises (http.raised), or returns a response with
\* a status_code and a body that response.json() decodes to http.json
\* (a returned value, or a raised decode error).  Both except clauses only
\* log; return response_data then reads a local that is unbound unless
\* the decode step assigned it.
get_api_answer(timestamp, http) ==
    LET unbound == Raise("UnboundLocalError",
            "local variable 'response_data' referenced before assignment")
    IN  IF http.raised
        THEN \* except requests.RequestException: 'Ошибка отправки запроса.'
             unbound @@ [log |-> <<Log("ERROR", "Oshibka otpravki zaprosa. "
                                                  \o http.msg)>>]
        ELSE IF http.status_code # 200
        THEN \* raise Exception('Сбой при обращении к URL ...')
             unbound @@ [log |-> <<Log("ERROR", "Proizoshla oshibka: "
                                    \o "Sboy pri obrashchenii k URL")>>]
        ELSE IF ~http.json.ok
        THEN unbound @@ [log |-> <<Log("DEBUG", "Otvet ot servera poluchen"),
                                   Log("ERROR", "Oshibka otpravki zaprosa. "
                                                  \o http.json.msg)>>]
        ELSE LET response_data == http.json.value
                 has == Contains(response_data, "form_date")
             IN  IF ~has.ok
                 THEN Return(response_data)
                        @@ [log |-> <<Log("DEBUG", "Otvet ot servera poluchen"),
                                      Log("ERROR", "Proizoshla oshibka: "
                                                     \o has.msg)>>]
                 ELSE IF ~has.value
                 THEN \* raise Exception('Отсутствует параметр form_date')
                      Return(response_data)
                        @@ [log |-> <<Log("DEBUG", "Otvet ot servera poluchen"),
                                      Log("ERROR", "Proizoshla oshibka: "
                                        \o "Otsutstvuet parametr form_date")>>]
                 ELSE Return(response_data)
                        @@ [log |-> <<Log("DEBUG",
                                          "Otvet ot servera poluchen")>>]

\* check_response without the isinstance(..., list) check.
check_response_NoListCheck(response) ==
    IF ~IsDict(response)
    THEN Raise("TypeError",
               "Nepravilnyy tip dannykh otveta servera: "
                   \o TypeName(response))
    ELSE IF "homeworks" \notin DOMAIN response.d
    THEN Raise("KeyError",
               "Otvet servera ne soderzhit klyuch homeworks: "
                   \o Str(response))
    ELSE Return(response.d["homeworks"])

\* check_response(response).
\* TypeError 'Неправильный тип данных ответа сервера: {type(response)}'
\* KeyError  'Ответ сервера не содержит ключ "homeworks": {response}'
\* TypeError 'В ответе API домашки под ключом homeworks данные приходят
\*            не в виде списка.'
check_response(response) ==
    IF ~IsDict(response)
    THEN Raise("TypeError",
               "Nepravilnyy tip dannykh otveta servera: "
                   \o TypeName(response))
    ELSE IF "homeworks" \notin DOMAIN response.d
    THEN Raise("KeyError",
               "Otvet servera ne soderzhit klyuch homeworks: "
                   \o Str(response))
    ELSE IF ~IsList(response.d["homeworks"])
    THEN Raise("TypeError",
               "V otvete API domashki pod klyuchom homeworks"
                   \o " dannye prikhodyat ne v vide spiska.")
    ELSE Return(response.d["homeworks"])

\* parse_status(homework).
\* KeyError 'В ответе API домашки нет ключа homework_name.'
\* KeyError 'В ответе API домашки нет ключа status.'
\* KeyError 'API домашки возвращает недокументированный статус домашней
\*           работы.'
\* returns f'Изменился статус проверки работы "{homework_name}". {verdict}'
parse_status(homework) ==
    LET hasName == Contains(homework, "homework_name")
        hasStatus == Contains(homework, "status")
    IN  IF ~hasName.ok THEN hasName
        ELSE IF ~hasName.value
        THEN Raise("KeyError",
                   "V otvete API domashki net klyucha homework_name.")
        ELSE IF ~hasStatus.ok THEN hasStatus
        ELSE IF ~hasStatus.value
        THEN Raise("KeyError", "V otvete API domashki net klyucha status.")
        ELSE IF ~IsDict(homework)
        THEN Raise("AttributeError",
                   "'" \o homework.type \o "' object has no attribute 'get'")
        ELSE LET verdict == VerdictsGet(homework.d["status"])
             IN  IF ~verdict.ok THEN verdict
                 ELSE IF ~Truthy(verdict.value)
                 THEN Raise("KeyError",
                            "API domashki vozvrashchaet nedokumentirovannyy"
                                \o " status domashney raboty.")
                 ELSE Return(PyStr(
                        "Izmenilsya status proverki raboty "
                            \o "\"" \o Str(homework.d["homework_name"])
                            \o "\". " \o verdict.value.s))

\* -------------------------------------------------------- environment

\* os.getenv(): None when the variable is not set, else its text.
TokenValues == {None, PyStr(""), PyStr("secret")}

\* int(time.time()) at startup.
StartTime == 500

\* What the API can answer.  A homework record is a dict with or without
\* each of the two keys; a status is one of the documented codes, another
\* string, or a JSON array (which Python cannot hash).
Names == {"hw1", "hw2"}
StatusValues ==
    {PyStr(c) : c \in {"approved", "reviewing", "rejected", "weird"}}
        \cup {PyList(<<>>)}
Record(keys, name, status) ==
    PyDict([k \in keys |->
                IF k = "homework_name" THEN PyStr(name) ELSE status])
\* Every combination of keys and status under the first name; the second
\* name with the keys present or not.
Records ==
    {Record(keys, "hw1", st) : keys \in SUBSET {"homework_name", "status"},
                               st \in StatusValues}
        \cup {Record(keys, n, PyStr("approved")) :
                keys \in SUBSET {"homework_name", "status"}, n \in Names}
\* Batches: empty, every single record, and two-record batches whose
\* first record is accepted or rejected by parse_status.
Batches ==
    {<<>>} \cup {<<r>> : r \in Records}
        \cup {<<r, q>> :
                r \in {Record({"homework_name", "status"}, "hw1",
                              PyStr("approved")),
                       Record({"homework_name", "status"}, "hw1",
                              PyStr("weird"))},
                q \in {Record({"homework_name", "status"}, "hw2",
                              PyStr("rejected")),
                       Record({}, "hw2", PyStr("weird"))}}
HomeworksValues == {PyList(b) : b \in Batches} \cup {None}
Dates == {PyInt(1000), PyInt(2000)}
Body(keys, hw, date) ==
    PyDict([k \in keys |-> IF k = "homeworks" THEN hw ELSE date])
\* Bodies: a dict with or without each key, None (JSON null), a list.
Bodies ==
    {Body(keys, hw, PyInt(1000)) :
        keys \in SUBSET {"homeworks", "form_date"}, hw \in HomeworksValues}
        \cup {Body({"homeworks", "form_date"}, hw, d) :
                hw \in HomeworksValues, d \in Dates}
        \cup {None, PyList(<<>>)}
HttpOutcomes ==
    {[raised |-> TRUE, msg |-> "ConnectionError"]}
        \cup {[raised |-> FALSE, status_code |-> 500, json |-> Return(None)]}
        \cup {[raised |-> FALSE, status_code |-> 200,
               json |-> Raise("RequestException", "JSONDecodeError")]}
        \cup {[raised |-> FALSE, status_code |-> 200, json |-> Return(b)] :
                b \in Bodies}

\* -------------------------------------------------------------- state

VARIABLES
    environ,          \* PRACTICUM_TOKEN, TELEGRAM_TOKEN, TELEGRAM_CHAT_ID
    pc,               \* the statement of main() that runs next
    timestamp,        \* main: timestamp
    last_send,        \* main: last_send
    response,         \* main: response
    homework,         \* main: homework
    homework_status,  \* main: homework_status
    error,            \* the exception being handled, with the function
                      \* that raised it (tb)
    message,          \* main: message
    propagating,      \* an exception that left the except clause
    log,              \* logging calls since the iteration began
    cycle,            \* calls of get_api_answer so far
    request,          \* params of the last requests.get
    cache0,           \* last_send['error'] when the iteration began
    sent,             \* send_message calls of this iteration
    slept,            \* time.sleep calls since the last get_api_answer
    failSent,         \* texts of all failure notifications sent so far
    prev,             \* summary of the previous iteration
    http,             \* what the HTTP client did with the last request
    lastGood          \* 'form_date' read by the last iteration that ended
                      \* without an exception

vars == <<environ, pc, timestamp, last_send, response, homework,
          homework_status, error, message, propagating, log, cycle,
          request, cache0, sent, slept, failSent, prev, http, lastGood>>

locals == <<response, homework, homework_status, error, message>>
history == <<cycle, request, cache0, failSent, prev, http, lastGood>>

NoPrev ==
    [failed |-> FALSE, message |-> Unbound, cache0 |-> None, nsent |-> 0,
     nfailure |-> 0, undelivered |-> 0, cursor |-> Unbound,
     status |-> None, lost |-> FALSE]

Init ==
    /\ environ \in [{"PRACTICUM_TOKEN", "TELEGRAM_TOKEN", "TELEGRAM_CHAT_ID"}
                        -> TokenValues]
    /\ pc = "check_tokens"
    /\ timestamp = Unbound
    /\ last_send = Unbound
    /\ response = Unbound
    /\ homework = Unbound
    /\ homework_status = Unbound
    /\ error = Unbound
    /\ message = Unbound
    /\ propagating = None
    /\ log = <<>>
    /\ cycle = 0
    /\ request = Unbound
    /\ cache0 = None
    /\ sent = <<>>
    /\ slept = <<>>
    /\ failSent = <<>>
    /\ prev = NoPrev
    /\ http = Unbound
    /\ lastGood = Unbound

\* A raised exception as the handler sees it: kind, text, raising function.
Exc(r, fn) == [kind |-> r.kind, msg |-> r.msg, tb |-> fn]

\* A send_message call: which call site made it, its text, whether the
\* bot delivered it, and whether send_message returned normally.
Sent(site, text, sendOk, r) ==
    [site |-> site, text |-> text, delivered |-> sendOk, returned |-> r.ok]

\* main(), lines 145-152: check_tokens() ends the process with exit() or
\* returns None, and `not None` holds, so the critical line
\* 'Отсутствуют обязательные переменные' follows every successful check.
Startup ==
    /\ pc = "check_tokens"
    /\ LET r == check_tokens(environ)
       IN  IF r.exited
           THEN /\ pc' = "halted"
                /\ log' = log \o r.log
                /\ UNCHANGED <<timestamp, last_send>>
           ELSE /\ pc' = "get_api_answer"
                /\ log' = log \o r.log \o
                        (IF ~Truthy(r.value)
                         THEN <<Log("CRITICAL",
                                    "Otsutstvuyut obyazatelnye peremennye")>>
                         ELSE <<>>)
                /\ last_send' = [error |-> None]
                /\ timestamp' = PyInt(StartTime)
    /\ UNCHANGED <<environ, locals, propagating, sent, slept, history>>

\* line 156: response = get_api_answer(timestamp)
GetApiAnswer ==
    /\ pc = "get_api_answer"
    /\ cycle < MaxCycles
    /\ \E h \in HttpOutcomes :
        LET r == get_api_answer(timestamp, h)
        IN  /\ http' = h
            /\ log' = log \o r.log
            /\ IF r.ok
               THEN /\ response' = r.value
                    /\ pc' = "check_response"
                    /\ UNCHANGED error
               ELSE /\ error' = Exc(r, "get_api_answer")
                    /\ pc' = "except"
                    /\ UNCHANGED response
    /\ cycle' = cycle + 1
    /\ request' = timestamp
    /\ cache0' = last_send.error
    /\ slept' = <<>>
    /\ UNCHANGED <<environ, timestamp, last_send, homework, homework_status,
                   message, propagating, sent, failSent, prev, lastGood>>

\* The cursor taken from the response as soon as it is validated.
CheckResponse_AdvancesCursor ==
    /\ pc = "check_response"
    /\ LET r == check_response(response)
       IN  IF r.ok
           THEN /\ homework' = r.value
                /\ pc' = "parse_status"
                /\ timestamp' = IF "form_date" \in DOMAIN response.d
                                THEN response.d["form_date"] ELSE timestamp
                /\ UNCHANGED error
           ELSE /\ error' = Exc(r, "check_response")
                /\ pc' = "except"
                /\ UNCHANGED <<homework, timestamp>>
    /\ UNCHANGED <<environ, last_send, response, homework_status,
                   message, propagating, log, sent, slept, history>>

\* line 157: homework = check_response(response)
CheckResponse ==
    /\ pc = "check_response"
    /\ LET r == check_response(response)
       IN  IF r.ok
           THEN /\ homework' = r.value
                /\ pc' = "parse_status"
                /\ UNCHANGED error
           ELSE /\ error' = Exc(r, "check_response")
                /\ pc' = "except"
                /\ UNCHANGED homework
    /\ UNCHANGED <<environ, timestamp, last_send, response, homework_status,
                   message, propagating, log, sent, slept, history>>

\* The loop body formatting the last record of the batch.
ParseStatus_LastRecord ==
    /\ pc = "parse_status"
    /\ LET arg == IF Truthy(homework) THEN homework.items[Len(homework.items)]
                                      ELSE homework
           r == parse_status(arg)
       IN  IF r.ok
           THEN /\ homework_status' = r.value
                /\ pc' = IF Truthy(homework) THEN "send_message"
                                             ELSE "advance"
                /\ UNCHANGED error
           ELSE /\ error' = Exc(r, "parse_status")
                /\ pc' = "except"
                /\ UNCHANGED homework_status
    /\ UNCHANGED <<environ, timestamp, last_send, response, homework,
                   message, propagating, log, sent, slept, history>>

\* The loop body with a "no news" branch: an empty list skips parse_status.
ParseStatus_SkipEmpty ==
    /\ pc = "parse_status"
    /\ IF ~Truthy(homework)
       THEN /\ pc' = "advance"
            /\ UNCHANGED <<error, homework_status>>
       ELSE LET r == parse_status(homework.items[1])
            IN  IF r.ok
                THEN /\ homework_status' = r.value
                     /\ pc' = "send_message"
                     /\ UNCHANGED error
                ELSE /\ error' = Exc(r, "parse_status")
                     /\ pc' = "except"
                     /\ UNCHANGED homework_status
    /\ UNCHANGED <<environ, timestamp, last_send, response, homework,
                   message, propagating, log, sent, slept, history>>

\* lines 158-162: parse_status(homework[0]) when the list is truthy,
\* parse_status(homework) on the empty list otherwise.
ParseStatus ==
    /\ pc = "parse_status"
    /\ LET arg == IF Truthy(homework) THEN homework.items[1] ELSE homework
           r == parse_status(arg)
       IN  IF r.ok
           THEN /\ homework_status' = r.value
                /\ pc' = IF Truthy(homework) THEN "send_message"
                                             ELSE "advance"
                /\ UNCHANGED error
           ELSE /\ error' = Exc(r, "parse_status")
                /\ pc' = "except"
                /\ UNCHANGED homework_status
    /\ UNCHANGED <<environ, timestamp, last_send, response, homework,
                   message, propagating, log, sent, slept, history>>

\* The status send skipped when the previous iteration sent the same text.
SendStatus_Dedup ==
    /\ pc = "send_message"
    /\ IF prev.status = homework_status
       THEN UNCHANGED <<sent, log>>
       ELSE \E sendOk \in BOOLEAN :
                /\ sent' = Append(sent, Sent("status", homework_status.s,
                                             sendOk, send_message(sendOk)))
                /\ log' = log \o send_message(sendOk).log
    /\ pc' = "advance"
    /\ UNCHANGED <<environ, timestamp, last_send, response, homework,
                   homework_status, error, message, propagating, slept,
                   history>>

\* line 160: send_message(bot, homework_status)
SendStatus ==
    /\ pc = "send_message"
    /\ \E sendOk \in BOOLEAN :
        LET r == send_message(sendOk)
        IN  /\ sent' = Append(sent, Sent("status", homework_status.s,
                                         sendOk, r))
            /\ log' = log \o r.log
            /\ IF r.ok
               THEN pc' = "advance" /\ UNCHANGED error
               ELSE pc' = "except" /\ error' = Exc(r, "send_message")
    /\ UNCHANGED <<environ, timestamp, last_send, response, homework,
                   homework_status, message, propagating, slept, history>>

\* The cursor read without the assignment to timestamp.
Advance_KeepCursor ==
    /\ pc = "advance"
    /\ LET r == Subscript(response, "form_date")
       IN  IF r.ok
           THEN /\ pc' = "sleep"
                /\ UNCHANGED <<error, timestamp>>
           ELSE /\ error' = Exc(r, "main")
                /\ pc' = "except"
                /\ UNCHANGED timestamp
    /\ UNCHANGED <<environ, last_send, response, homework, homework_status,
                   message, propagating, log, sent, slept, history>>

\* The cursor read followed by a reset of the last-error cache.
Advance_ClearsCache ==
    /\ pc = "advance"
    /\ LET r == Subscript(response, "form_date")
       IN  IF r.ok
           THEN /\ timestamp' = r.value
                /\ last_send' = [error |-> None]
                /\ pc' = "sleep"
                /\ UNCHANGED error
           ELSE /\ error' = Exc(r, "main")
                /\ pc' = "except"
                /\ UNCHANGED <<timestamp, last_send>>
    /\ UNCHANGED <<environ, response, homework, homework_status,
                   message, propagating, log, sent, slept, history>>

\* line 163: timestamp = response['form_date']
Advance ==
    /\ pc = "advance"
    /\ LET r == Subscript(response, "form_date")
       IN  IF r.ok
           THEN /\ timestamp' = r.value
                /\ pc' = "sleep"
                /\ UNCHANGED error
           ELSE /\ error' = Exc(r, "main")
                /\ pc' = "except"
                /\ UNCHANGED timestamp
    /\ UNCHANGED <<environ, last_send, response, homework, homework_status,
                   message, propagating, log, sent, slept, history>>

\* The text the except clause builds: f'Сбой в работе программы: {error}'
FailureMessage(exc) == "Sboy v rabote programmy: " \o ErrStr(exc)

\* Dedup that sends only into an empty cache / that never suppresses.
ShouldSend_OnlyFirst(cached, text) == cached = None
ShouldSend_Always(cached, text) == TRUE

\* last_send['error'] != message
ShouldSend(cached, text) == cached # PyStr(text)

\* The except clause ending in a bare raise: the exception leaves main()
\* once the finally clause has run.
Except_Reraise ==
    /\ pc = "except"
    /\ LET text == FailureMessage(error)
       IN  /\ message' = PyStr(text)
           /\ IF ShouldSend(last_send.error, text)
              THEN \E sendOk \in BOOLEAN :
                    /\ sent' = Append(sent, Sent("failure", text, sendOk,
                                                 send_message(sendOk)))
                    /\ failSent' = Append(failSent, text)
                    /\ log' = log \o send_message(sendOk).log
                    /\ last_send' = [error |-> PyStr(text)]
              ELSE UNCHANGED <<sent, failSent, log, last_send>>
    /\ propagating' = error
    /\ error' = Unbound
    /\ pc' = "sleep"
    /\ UNCHANGED <<environ, timestamp, response, homework, homework_status,
                   slept, cycle, request, cache0, prev, http, lastGood>>

\* The except clause caching the message only when the bot delivered it.
Except_CacheOnDelivery ==
    /\ pc = "except"
    /\ LET text == FailureMessage(error)
       IN  /\ message' = PyStr(text)
           /\ IF ShouldSend(last_send.error, text)
              THEN \E sendOk \in BOOLEAN :
                    /\ sent' = Append(sent, Sent("failure", text, sendOk,
                                                 send_message(sendOk)))
                    /\ failSent' = Append(failSent, text)
                    /\ log' = log \o send_message(sendOk).log
                    /\ last_send' = IF sendOk THEN [error |-> PyStr(text)]
                                              ELSE last_send
              ELSE UNCHANGED <<sent, failSent, log, last_send>>
    /\ error' = Unbound
    /\ pc' = "sleep"
    /\ UNCHANGED <<environ, timestamp, response, homework, homework_status,
                   propagating, slept, cycle, request, cache0, prev, http,
                   lastGood>>

\* lines 164-168: the except clause.  `error` is unbound when it ends.
Except ==
    /\ pc = "except"
    /\ LET text == FailureMessage(error)
       IN  /\ message' = PyStr(text)
           /\ IF ShouldSend(last_send.error, text)
              THEN \E sendOk \in BOOLEAN :
                    LET r == send_message(sendOk)
                    IN  /\ sent' = Append(sent, Sent("failure", text,
                                                     sendOk, r))
                        /\ failSent' = Append(failSent, text)
                        /\ log' = log \o r.log
                        /\ IF r.ok
                           THEN /\ last_send' = [error |-> PyStr(text)]
                                /\ UNCHANGED propagating
                           ELSE /\ propagating' = Exc(r, "send_message")
                                /\ UNCHANGED last_send
              ELSE UNCHANGED <<sent, failSent, log, last_send, propagating>>
    /\ error' = Unbound
    /\ pc' = "sleep"
    /\ UNCHANGED <<environ, timestamp, response, homework, homework_status,
                   slept, cycle, request, cache0, prev, http, lastGood>>

\* What is kept of an iteration once it is over.
Summary ==
    [failed |-> message # Unbound,
     message |-> message,
     cache0 |-> cache0,
     nsent |-> Len(sent),
     nfailure |-> Cardinality({i \in 1..Len(sent) : sent[i].site = "failure"}),
     undelivered |-> Cardinality({i \in 1..Len(sent) : ~sent[i].delivered}),
     cursor |-> IF message = Unbound THEN timestamp ELSE Unbound,
     status |-> IF \E i \in 1..Len(sent) : sent[i].site = "status"
                THEN PyStr(sent[CHOOSE i \in 1..Len(sent) :
                                    sent[i].site = "status"].text)
                ELSE None,
     lost |-> \E i \in 1..Len(sent) :
                sent[i].site = "failure" /\ ~sent[i].delivered]

\* The sleep in the try body instead of the finally clause: an iteration
\* that failed does not sleep.
Sleep_OnlyOnSuccess ==
    /\ pc = "sleep"
    /\ slept' = IF message = Unbound THEN Append(slept, RETRY_PERIOD)
                                     ELSE slept
    /\ pc' = IF propagating # None THEN "crashed" ELSE "get_api_answer"
    /\ prev' = Summary
    /\ response' = Unbound
    /\ homework' = Unbound
    /\ homework_status' = Unbound
    /\ message' = Unbound
    /\ sent' = <<>>
    /\ log' = <<>>
    /\ http' = Unbound
    /\ lastGood' = IF /\ message = Unbound
                       /\ response.type = "dict"
                       /\ "form_date" \in DOMAIN response.d
                    THEN response.d["form_date"]
                    ELSE lastGood
    /\ UNCHANGED <<environ, timestamp, last_send, error, propagating, cycle,
                   request, cache0, failSent>>

\* line 170: finally: time.sleep(RETRY_PERIOD); then the next iteration, or
\* the end of main() when an exception left the except clause.  The locals
\* of the iteration are dropped here: each is assigned before it is read
\* in the next iteration.
Sleep ==
    /\ pc = "sleep"
    /\ slept' = Append(slept, RETRY_PERIOD)
    /\ pc' = IF propagating # None THEN "crashed" ELSE "get_api_answer"
    /\ prev' = Summary
    /\ response' = Unbound
    /\ homework' = Unbound
    /\ homework_status' = Unbound
    /\ message' = Unbound
    /\ sent' = <<>>
    /\ log' = <<>>
    /\ http' = Unbound
    /\ lastGood' = IF /\ message = Unbound
                       /\ response.type = "dict"
                       /\ "form_date" \in DOMAIN response.d
                    THEN response.d["form_date"]
                    ELSE lastGood
    /\ UNCHANGED <<environ, timestamp, last_send, error, propagating, cycle,
                   request, cache0, failSent>>

Next ==
    \/ Startup
    \/ GetApiAnswer
    \/ CheckResponse
    \/ ParseStatus
    \/ SendStatus
    \/ Advance
    \/ Except
    \/ Sleep

Spec == Init /\ [][Next]_vars

\* ------------------------------------------------------------- claims

\* Statements of main() that belong to a loop iteration already begun.
InCycle ==
    pc \in {"check_response", "parse_status", "send_message", "advance",
            "except", "sleep"}

FailureSends == {i \in 1..Len(sent) : sent[i].site = "failure"}
StatusSends == {i \in 1..Len(sent) : sent[i].site = "status"}

\* C1: when one of PRACTICUM_TOKEN, TELEGRAM_TOKEN, TELEGRAM_CHAT_ID is
\* empty or absent at startup, main halts before any call of
\* get_api_answer and before any send_message: the run holds no fetch and
\* no send.
C1_HaltBeforeNetwork ==
    (\E n \in DOMAIN environ : environ[n] \in {None, PyStr("")})
        => /\ pc \in {"check_tokens", "halted"}
           /\ cycle = 0
           /\ request = Unbound
           /\ sent = <<>>
           /\ failSent = <<>>

C1_Witness ==
    /\ pc = "halted"
    /\ environ["PRACTICUM_TOKEN"] = PyStr("secret")
    /\ environ["TELEGRAM_TOKEN"] = PyStr("secret")
    /\ environ["TELEGRAM_CHAT_ID"] = None

\* C2 as stated: two consecutive failure iterations that begin with an
\* empty last-error cache call send_message exactly once in total when
\* their error texts are equal and exactly twice when they differ.
C2_Original ==
    (pc = "sleep" /\ message # Unbound /\ prev.failed /\ prev.cache0 = None)
        => prev.nsent + Len(sent) = IF prev.message = message THEN 1 ELSE 2

\* C2 amended: two consecutive failure iterations that begin with an empty
\* last-error cache call send_message with a failure message exactly once
\* in total when their error texts are equal and exactly twice when they
\* differ (a status notification sent before the iteration failed is not
\* counted).
C2_FailureDedup ==
    (pc = "sleep" /\ message # Unbound /\ prev.failed /\ prev.cache0 = None)
        => prev.nfailure + Cardinality(FailureSends)
                = IF prev.message = message THEN 1 ELSE 2

C2_Witness ==
    /\ pc = "sleep"
    /\ message # Unbound
    /\ prev.failed
    /\ prev.cache0 = None
    /\ prev.message = message
    /\ prev.nfailure = 1
    /\ FailureSends = {}

\* C3 as stated: over a whole run send_message is called with any one
\* failure text at most once.
C3_Original ==
    \A i, j \in 1..Len(failSent) : i # j => failSent[i] # failSent[j]

\* C3 amended: a failure notification is sent only when its text differs
\* from the last failure text sent, so no two failure notifications that
\* follow one another in a run carry the same text (a text can be sent
\* again once a different failure text was sent in between).
C3_NoRepeatInARow ==
    \A i \in 1..(Len(failSent) - 1) : failSent[i] # failSent[i + 1]

C3_Witness ==
    /\ pc = "sleep"
    /\ message # Unbound
    /\ FailureSends = {}
    /\ Len(failSent) = 2
    /\ message.s = failSent[2]

\* The response of scenario A's kind: a dict with a non-empty list under
\* 'homeworks' whose first record has a name and a documented status, and
\* with 'form_date'.
ValidFirstRecord(resp) ==
    /\ resp.type = "dict"
    /\ "homeworks" \in DOMAIN resp.d
    /\ resp.d["homeworks"].type = "list"
    /\ Len(resp.d["homeworks"].items) > 0
    /\ LET first == resp.d["homeworks"].items[1]
       IN  /\ first.type = "dict"
           /\ {"homework_name", "status"} \subseteq DOMAIN first.d
           /\ first.d["status"] \in
                {PyStr("approved"), PyStr("reviewing"), PyStr("rejected")}

\* 'Изменился статус проверки работы "{homework_name}". {text}'
StatusText(record) ==
    "Izmenilsya status proverki raboty \"" \o record.d["homework_name"].s
        \o "\". "
        \o (CASE record.d["status"].s = "approved" ->
                    "Rabota proverena: revyueru vsyo ponravilos. Ura!"
              [] record.d["status"].s = "reviewing" ->
                    "Rabota vzyata na proverku revyuerom."
              [] record.d["status"].s = "rejected" ->
                    "Rabota proverena: u revyuera est zamechaniya.")

\* C4: an iteration whose fetch returns a dict with a non-empty
\* 'homeworks' list, a first record with a name and a documented status,
\* and 'form_date' = d calls send_message exactly once, with the text
\* 'Изменился статус проверки работы "{homework_name}". {text}', sends no
\* failure message, and the next fetch is made with cursor d.
C4_SuccessCycle ==
    /\ (pc = "sleep" /\ ValidFirstRecord(response)
            /\ "form_date" \in DOMAIN response.d)
        => /\ Len(sent) = 1
           /\ sent[1].site = "status"
           /\ sent[1].text = StatusText(response.d["homeworks"].items[1])
           /\ message = Unbound
           /\ timestamp = response.d["form_date"]
           /\ Summary.cursor = response.d["form_date"]
    /\ (InCycle /\ prev.cursor # Unbound) => request = prev.cursor

C4_Witness ==
    /\ pc = "check_response"
    /\ cycle = 2
    /\ prev.cursor = PyInt(1000)
    /\ prev.nsent = 1
    /\ ~prev.failed
    /\ request = PyInt(1000)

\* C5: check_response checks in this order and fails at the first check
\* that fails: a value that is not a dict is a TypeError, a dict without
\* 'homeworks' a KeyError, a 'homeworks' value that is not a list a
\* TypeError; otherwise it returns the list under 'homeworks', the empty
\* list included.
C5_CheckResponse ==
    /\ (pc = "except" /\ error.tb = "check_response")
        => CASE response.type # "dict" -> error.kind = "TypeError"
             [] "homeworks" \notin DOMAIN response.d ->
                    error.kind = "KeyError"
             [] response.d["homeworks"].type # "list" ->
                    error.kind = "TypeError"
             [] OTHER -> FALSE
    /\ pc = "parse_status"
        => /\ response.type = "dict"
           /\ "homeworks" \in DOMAIN response.d
           /\ response.d["homeworks"].type = "list"
           /\ homework = response.d["homeworks"]

C5_Witness ==
    /\ pc = "parse_status"
    /\ response.d["homeworks"] = PyList(<<>>)
    /\ homework = PyList(<<>>)

\* The first record of the validated list.
FirstRecord == homework.items[1]
Documented == {PyStr("approved"), PyStr("reviewing"), PyStr("rejected")}
\* str() of the three KeyErrors of parse_status, as the source words them.
NoNameText == "V otvete API domashki net klyucha homework_name."
NoStatusText == "V otvete API domashki net klyucha status."
UndocumentedText ==
    "API domashki vozvrashchaet nedokumentirovannyy status domashney raboty."

\* C6: parse_status fails with a missing-key error for every record
\* without 'homework_name' or without 'status', fails with the
\* unrecognized-status error for every record whose status is not
\* approved, reviewing or rejected, and for each of the three documented
\* codes returns the message with the record's name and the verdict text
\* HOMEWORK_VERDICTS maps the code to.
C6_ParseStatus ==
    /\ (pc = "except" /\ error.tb = "parse_status" /\ Truthy(homework))
        => CASE "homework_name" \notin DOMAIN FirstRecord.d ->
                    error.kind = "KeyError" /\ error.msg = NoNameText
             [] "status" \notin DOMAIN FirstRecord.d ->
                    error.kind = "KeyError" /\ error.msg = NoStatusText
             [] FirstRecord.d["status"] \notin Documented ->
                    error.kind = "KeyError" /\ error.msg = UndocumentedText
             [] OTHER -> FALSE
    /\ pc = "send_message"
        => /\ {"homework_name", "status"} \subseteq DOMAIN FirstRecord.d
           /\ FirstRecord.d["status"] \in Documented
           /\ homework_status = PyStr(StatusText(FirstRecord))

\* A response whose first record has a name and a status that is none of
\* the three documented codes.
UnrecognisedFirst(resp) ==
    /\ resp.type = "dict"
    /\ "homeworks" \in DOMAIN resp.d
    /\ resp.d["homeworks"].type = "list"
    /\ Len(resp.d["homeworks"].items) > 0
    /\ LET first == resp.d["homeworks"].items[1]
       IN  /\ first.type = "dict"
           /\ {"homework_name", "status"} \subseteq DOMAIN first.d
           /\ first.d["status"] \notin Documented

\* C7: in an iteration whose response has a first record with an
\* unrecognised status, parse_status fails with the unrecognized-status
\* error, no status notification is sent, and the failure message
\* 'Сбой в работе программы: {error}' is sent exactly once from an empty
\* last-error cache and not again while the same response comes back.
C7_UnrecognisedStatus ==
    /\ (UnrecognisedFirst(response) /\ InCycle)
        => pc \notin {"send_message", "advance"}
    /\ (UnrecognisedFirst(response) /\ pc = "except"
            /\ error.tb = "parse_status")
        => error.kind = "KeyError" /\ error.msg = UndocumentedText
    /\ (UnrecognisedFirst(response) /\ pc = "sleep")
        => /\ StatusSends = {}
           /\ message = PyStr("Sboy v rabote programmy: '"
                                \o UndocumentedText \o "'")
           /\ cache0 = None
                => /\ Len(sent) = 1
                   /\ sent[1].site = "failure"
                   /\ sent[1].text = message.s
           /\ cache0 = message => sent = <<>>

\* C8: when the validated 'homeworks' list is empty the loop still calls
\* parse_status on the empty value, which fails with the missing-key
\* error; the catch-all handles the iteration as a failure (its failure
\* message is sent unless it equals the last-error cache): never a silent
\* no-op.
C8_EmptyList ==
    /\ (pc \in {"send_message", "advance"}) => homework # PyList(<<>>)
    /\ (pc = "except" /\ error.tb = "parse_status"
            /\ homework = PyList(<<>>))
        => error.kind = "KeyError" /\ error.msg = NoNameText
    /\ (pc = "sleep" /\ homework = PyList(<<>>))
        => /\ message = PyStr("Sboy v rabote programmy: '"
                                \o NoNameText \o "'")
           /\ StatusSends = {}
           /\ Cardinality(FailureSends) = IF cache0 = message THEN 0 ELSE 1
           /\ last_send.error = message
           /\ timestamp = request

C8_Witness ==
    /\ pc = "sleep"
    /\ homework = PyList(<<>>)
    /\ cache0 = None
    /\ Len(sent) = 1
    /\ sent[1].site = "failure"
    /\ sent[1].text = "Sboy v rabote programmy: '" \o NoNameText \o "'"

\* C9: send_message returns normally whatever the bot's send does, so a
\* send that fails, of a status notification or of a failure notification
\* in the except clause, never ends the loop: the iteration goes on to
\* its sleep and the next iteration.
C9_SendNeverRaises ==
    /\ \A i \in 1..Len(sent) : sent[i].returned
    /\ propagating = None
    /\ pc # "crashed"
    /\ (pc = "except") => error.tb # "send_message"

C9_Witness ==
    /\ pc = "check_response"
    /\ prev.nsent = 2
    /\ prev.undelivered = 2
    /\ slept = <<>>

\* C10: every iteration, whether it succeeds or fails at the fetch, the
\* validation, the formatting or the cursor read, sleeps RETRY_PERIOD
\* exactly once after its work: there is exactly one sleep between two
\* calls of get_api_answer that follow one another.
C10_OneSleepPerCycle ==
    /\ InCycle => slept = <<>>
    /\ pc = "get_api_answer"
        => slept = IF cycle = 0 THEN <<>> ELSE <<RETRY_PERIOD>>

C10_Witness ==
    /\ pc = "get_api_answer"
    /\ cycle = 2
    /\ prev.failed
    /\ prev.nsent = 0
    /\ slept = <<600>>

\* The statements of the while True loop.
LoopPcs ==
    {"get_api_answer", "check_response", "parse_status", "send_message",
     "advance", "except", "sleep"}

\* C11: POLLING has no exit: once the loop is entered no outcome of the
\* fetch, the validation, the formatting or a send leaves it, and the sleep
\* of every iteration leads to the next fetch; HALT is entered only from
\* STARTUP, with a config value missing.
C11_NoExitFromPolling ==
    [][/\ pc \in LoopPcs => pc' \in LoopPcs
       /\ pc = "sleep" => pc' = "get_api_answer"
       /\ pc' = "halted"
            => /\ pc = "check_tokens"
               /\ \E n \in DOMAIN environ : ~Truthy(environ[n])
       /\ pc' \in {"check_tokens", "halted"} \cup LoopPcs]_vars

C11_Witness ==
    /\ pc = "check_response"
    /\ cycle = 3
    /\ prev.failed
    /\ prev.undelivered = 1

\* What parse_status makes of the record at index 0.
FirstResult == parse_status(response.d["homeworks"].items[1])

\* C12: an iteration sends at most one status notification, and with at
\* least one record in the validated list it is the one formatted from
\* the record at index 0; the records after it change neither the messages
\* sent, nor the error, nor the cursor of the iteration.
C12_FirstRecordOnly ==
    /\ Cardinality(StatusSends) <= 1
    /\ (pc = "sleep" /\ homework # Unbound /\ Truthy(homework))
        => /\ StatusSends = IF FirstResult.ok THEN {1} ELSE {}
           /\ FirstResult.ok => sent[1].text = FirstResult.value.s
           /\ message =
                IF ~FirstResult.ok
                THEN PyStr(FailureMessage(FirstResult))
                ELSE IF "form_date" \in DOMAIN response.d THEN Unbound
                ELSE PyStr("Sboy v rabote programmy: 'form_date'")
           /\ timestamp =
                IF FirstResult.ok /\ "form_date" \in DOMAIN response.d
                THEN response.d["form_date"] ELSE request
           /\ Cardinality(FailureSends)
                = IF message = Unbound \/ message = cache0 THEN 0 ELSE 1

C12_Witness ==
    /\ pc = "sleep"
    /\ homework # Unbound
    /\ Len(homework.items) = 2
    /\ homework.items[2] = PyDict([k \in {} |-> None])
    /\ Len(sent) = 1
    /\ sent[1].site = "status"
    /\ message = Unbound

\* C13: status notifications are not deduplicated: every iteration whose
\* validated response has a first record with a name and a documented
\* status calls send_message with the formatted status text, also when the
\* previous iteration sent the same text and whatever the last-error cache
\* holds.
C13_StatusNotDeduplicated ==
    (pc \in {"advance", "sleep"} /\ ValidFirstRecord(response))
        => /\ Len(sent) >= 1
           /\ sent[1].site = "status"
           /\ sent[1].text = StatusText(response.d["homeworks"].items[1])

C13_Witness ==
    /\ pc = "sleep"
    /\ ValidFirstRecord(response)
    /\ prev.status = PyStr(sent[1].text)
    /\ cache0 # None
    /\ sent[1].site = "status"

\* The fetch failed in transport or came back with a status other than 200.
FetchFailed(h) == h.raised \/ h.status_code # 200

UnboundText ==
    "local variable 'response_data' referenced before assignment"

\* C14 as stated: a transport failure or a non-200 status in
\* get_api_answer is only logged; get_api_answer does not raise to its
\* caller, on a non-200 status it still decodes the body and returns it,
\* and the failure does not reach the except clause of the main loop.
C14_Original ==
    (InCycle /\ FetchFailed(http))
        => /\ pc # "except"
           /\ message = Unbound
           /\ ~http.raised => response = http.json.value

\* C14 amended: a transport failure or a non-200 status in get_api_answer
\* is logged by its except clauses, which do not raise it again, and no
\* body is decoded; the function then fails at return response_data with
\* an unbound-local error, which reaches the except clause of the main
\* loop: the iteration is a failure iteration with the message
\* 'Сбой в работе программы: local variable 'response_data' referenced
\* before assignment' (sent unless it equals the last-error cache) and the
\* cursor keeps its value.
C14_FetchFailureSurfaces ==
    (InCycle /\ FetchFailed(http))
        => /\ pc \in {"except", "sleep"}
           /\ response = Unbound
           /\ \E i \in 1..Len(log) :
                /\ log[i].level = "ERROR"
                /\ log[i].msg =
                    IF http.raised
                    THEN "Oshibka otpravki zaprosa. " \o http.msg
                    ELSE "Proizoshla oshibka: Sboy pri obrashchenii k URL"
           /\ pc = "except"
                => error = [kind |-> "UnboundLocalError", msg |-> UnboundText,
                            tb |-> "get_api_answer"]
           /\ pc = "sleep"
                => /\ message = PyStr("Sboy v rabote programmy: "
                                        \o UnboundText)
                   /\ Len(sent) = IF cache0 = message THEN 0 ELSE 1
                   /\ timestamp = request

C14_Witness ==
    /\ pc = "sleep"
    /\ http # Unbound
    /\ ~http.raised
    /\ http.status_code = 500
    /\ Len(sent) = 1
    /\ sent[1].site = "failure"

\* The body was decoded and has no 'form_date'.
MissingCursor(h) ==
    /\ ~h.raised
    /\ h.status_code = 200
    /\ h.json.ok
    /\ ~(h.json.value.type = "dict" /\ "form_date" \in DOMAIN h.json.value.d)

\* C15: when the decoded body has no 'form_date', get_api_answer logs an
\* error and still returns the body; the loop validates it and, with a
\* valid first record, sends the status notification and only then fails
\* at the cursor read: the same iteration produces the failure message
\* (sent unless it equals the last-error cache) and the cursor keeps its
\* value.
C15_MissingCursor ==
    (InCycle /\ MissingCursor(http))
        => /\ response = http.json.value
           /\ \E i \in 1..Len(log) :
                /\ log[i].level = "ERROR"
                /\ log[i].msg \in
                    {"Proizoshla oshibka: Otsutstvuet parametr form_date",
                     "Proizoshla oshibka: argument of type 'NoneType'"
                        \o " is not iterable"}
           /\ (pc = "sleep" /\ ValidFirstRecord(response))
                => /\ sent[1].site = "status"
                   /\ sent[1].text
                        = StatusText(response.d["homeworks"].items[1])
                   /\ message = PyStr("Sboy v rabote programmy: 'form_date'")
                   /\ Len(sent) = IF cache0 = message THEN 1 ELSE 2
                   /\ Len(sent) = 2
                        => /\ sent[2].site = "failure"
                           /\ sent[2].text = message.s
                   /\ last_send.error = message
                   /\ timestamp = request

C15_Witness ==
    /\ pc = "sleep"
    /\ MissingCursor(http)
    /\ ValidFirstRecord(response)
    /\ Len(sent) = 2
    /\ cycle = 2
    /\ timestamp = PyInt(2000)

\* The critical lines logged so far.
Criticals == SelectSeq(log, LAMBDA l : l.level = "CRITICAL")

\* C16: with the three config values non-empty the startup is silent: no
\* critical line is logged by check_tokens or by main before the loop is
\* entered; with some of them empty exactly one critical line naming the
\* variable is logged for each missing value before the process ends.
C16_StartupLog ==
    /\ (pc = "get_api_answer" /\ cycle = 0) => Criticals = <<>>
    /\ pc = "halted"
        => \A n \in DOMAIN environ :
                Cardinality({i \in 1..Len(Criticals) :
                    Criticals[i].msg
                        = "Otsutstvuet obyazatelnaya peremennaya " \o n})
                    = IF environ[n] \in {None, PyStr("")} THEN 1 ELSE 0
    /\ pc = "halted"
        => Len(Criticals)
            = Cardinality({n \in DOMAIN environ :
                                environ[n] \in {None, PyStr("")}})

\* The 'form_date' of the last iteration that ended without an exception,
\* or the startup time when there was none.
CursorBase == IF lastGood = Unbound THEN PyInt(StartTime) ELSE lastGood

\* C17: the cursor changes only at the end of an iteration in which the
\* fetch, the validation, the formatting and the read of 'form_date' all
\* succeeded; every failure iteration leaves it unchanged, so every fetch
\* is made with the 'form_date' of the most recent fully successful
\* iteration, or with the startup time when there was none.
C17_CursorFrame ==
    /\ InCycle => request = CursorBase
    /\ pc = "get_api_answer" => timestamp = CursorBase
    /\ (InCycle /\ pc # "sleep") => timestamp = request
    /\ (pc = "sleep" /\ message # Unbound) => timestamp = request
    /\ (pc = "sleep" /\ message = Unbound)
        => timestamp = response.d["form_date"]

C17_Witness ==
    /\ pc = "check_response"
    /\ cycle = 3
    /\ prev.failed
    /\ lastGood = PyInt(1000)
    /\ request = PyInt(1000)

\* C18: a successful iteration never clears the last-error cache: the
\* cache changes only in a failure iteration whose message differs from
\* it, and then becomes that message; so after a failure with text E, any
\* number of successful iterations and a new failure with text E, no
\* second failure notification is sent.
C18_CacheFrame ==
    /\ (InCycle /\ pc # "sleep") => last_send.error = cache0
    /\ (pc = "sleep" /\ message = Unbound) => last_send.error = cache0
    /\ (pc = "sleep" /\ message # Unbound)
        => /\ last_send.error = message
           /\ Cardinality(FailureSends) = IF message = cache0 THEN 0 ELSE 1
    /\ (pc = "get_api_answer" /\ cycle >= 1)
        => last_send.error
            = IF prev.failed THEN prev.message ELSE prev.cache0

C18_Witness ==
    /\ pc = "sleep"
    /\ cycle = 3
    /\ ~prev.failed
    /\ prev.nsent = 1
    /\ message = cache0
    /\ sent = <<>>
    /\ failSent = <<message.s>>

\* C19: the last-error cache is set to the failure message whether or not
\* its send succeeded, since send_message swallows the failure; a failure
\* message whose send failed is not sent again while the same error text
\* repeats, and the cache can hold a text that was never delivered.
C19_CacheSetWithoutDelivery ==
    /\ pc = "sleep"
        => \A i \in FailureSends : last_send.error = PyStr(sent[i].text)
    /\ (pc = "sleep" /\ prev.lost /\ message = prev.message)
        => /\ FailureSends = {}
           /\ last_send.error = message

C19_Witness ==
    /\ pc = "sleep"
    /\ cycle = 2
    /\ prev.lost
    /\ message = prev.message
    /\ sent = <<>>
    /\ last_send.error = message
    /\ Len(failSent) = 1

====
